---- MODULE Spec2Model ----
(***************************************************************************)
(* Model of the booking view in src/frontend/src/App.jsx: the React state  *)
(* of the App component (the appointment list and the five draft fields),  *)
(* its handlers (load, book, cancelAppointment, Reset, the input onChange  *)
(* callbacks), and the HTTP requests they leave in flight.  Every await in *)
(* the source is a point where the handler is suspended: the part before   *)
(* the await is one action, the continuation after the response another.   *)
(***************************************************************************)
EXTENDS Integers, Sequences, FiniteSets, TLC

(* ------------------------------ bounds -------------------------------- *)

\* Instants (Date values and the wall clock) range over 0..MaxTime.
MaxTime == 1
\* Longest text typed into the "Mechanic ID" input.
MaxMechLen == 1
\* Appointment ids the server may return are 1..MaxAppts.
MaxAppts == 1
\* Total number of HTTP requests issued in one run: the first load and one
\* booking or cancellation with its refetch.
MaxRequests == 3
\* The same total in the double-submission runs: the first load and two
\* bookings or cancellations with their refetches.
MaxDoubleRequests == 5

(* --------------------------- value domains ---------------------------- *)

\* useState(null): the empty value of the two DatePicker fields.
Null == -1

Dates == 0..MaxTime

Customers == {"", "Ann"}

Vehicles == {"", "KA01"}

\* Characters of the mechanic input: a digit, a letter, a blank.
MechChars == {"7", "a", " "}

MechStrings == UNION {[1..n -> MechChars] : n \in 0..MaxMechLen}

\* Date.prototype.getTimezoneOffset() of the host, in clock units: one host,
\* west of Greenwich, so that the shift of toLocalISO is not the identity.
TzOffsets == {1}

ApptIds == 1..MaxAppts

\* A JSON array of appointments, by id, in the server's order.
ApptLists == UNION {{s \in [1..n -> ApptIds] : \A i, j \in 1..n : i # j => s[i] # s[j]} : n \in 0..MaxAppts}

\* What a GET response body can be: a JSON array, another JSON value (an
\* error object), or text that res.json() cannot parse.
Bodies == {[kind |-> "array", items |-> l] : l \in ApptLists} \cup {[kind |-> "object", items |-> <<>>], [kind |-> "invalid", items |-> <<>>]}

NoData == [kind |-> "none", items |-> <<>>]

PostTexts == {"", "Mechanic double-booked"}

DeleteTexts == {"", "Not found"}

(* ------------------------------- state -------------------------------- *)

VARIABLES appointments, customer, vehicle, mechanic, start, end, mounted, now, tzOffset, inflight, nextSeq, shown, ev, newest

vars == <<appointments, customer, vehicle, mechanic, start, end, mounted, now, tzOffset, inflight, nextSeq, shown, ev, newest>>

draft == <<customer, vehicle, mechanic, start, end>>

(* ---------------------------- pure helpers ---------------------------- *)

IsBlank(c) == c = " "

IsDigit(c) == c = "7"

DigitVal(c) == IF c = "7" THEN 7 ELSE 0

RECURSIVE TrimLeft(_)
TrimLeft(s) == IF s # <<>> /\ IsBlank(Head(s)) THEN TrimLeft(Tail(s)) ELSE s

RECURSIVE TrimRight(_)
TrimRight(s) == IF s # <<>> /\ IsBlank(s[Len(s)]) THEN TrimRight(SubSeq(s, 1, Len(s) - 1)) ELSE s

RECURSIVE Decimal(_)
Decimal(s) == IF s = <<>> THEN 0 ELSE 10 * Decimal(SubSeq(s, 1, Len(s) - 1)) + DigitVal(s[Len(s)])

NaN == [t |-> "NaN", v |-> 0]

\* Number(mechanic): blanks are trimmed, the empty string is 0, decimal
\* digits are their value, anything else is NaN.
Number(s) ==
  LET t == TrimRight(TrimLeft(s)) IN
  IF t = <<>> THEN [t |-> "number", v |-> 0]
  ELSE IF \A i \in 1..Len(t) : IsDigit(t[i]) THEN [t |-> "number", v |-> Decimal(t)]
  ELSE NaN

\* JSON.stringify of a number: NaN has no JSON form and is written null.
JSONNumber(x) == IF x.t = "number" THEN x ELSE [t |-> "null", v |-> 0]

\* toLocalISO: '' for a missing date, else the UTC fields of the instant
\* shifted back by the host offset, cut to seconds.
toLocalISO(dt) ==
  IF dt = Null THEN [empty |-> TRUE, wall |-> 0]
  ELSE [empty |-> FALSE, wall |-> dt - tzOffset]

\* The wall-clock reading of an instant on the host (getHours() etc.).
WallClock(dt) == dt - tzOffset

NoBody == [customerName |-> "", vehicleReg |-> "", mechanicId |-> [t |-> "null", v |-> 0], startTime |-> toLocalISO(Null), endTime |-> toLocalISO(Null)]

\* JSON.stringify(payload) of book().
PostBody(c, v, m, s, e) ==
  [customerName |-> c, vehicleReg |-> v, mechanicId |-> JSONNumber(Number(m)), startTime |-> toLocalISO(s), endTime |-> toLocalISO(e)]

MsgFill == "Please fill all fields"

MsgPast == "Cannot schedule in the past"

MsgOrder == "End time must be after start time"

MsgBookError == "Error booking appointment"

\* validate with the last comparison strict: an end equal to the start passes.
validateStrictOrder(c, v, m, s, e, t) ==
  IF c = "" \/ v = "" \/ m = <<>> \/ s = Null \/ e = Null THEN MsgFill
  ELSE IF s < t THEN MsgPast
  ELSE IF e < s THEN MsgOrder
  ELSE ""

\* validate with the last two checks swapped.
validateOrderFirst(c, v, m, s, e, t) ==
  IF c = "" \/ v = "" \/ m = <<>> \/ s = Null \/ e = Null THEN MsgFill
  ELSE IF e <= s THEN MsgOrder
  ELSE IF s < t THEN MsgPast
  ELSE ""

\* validate behind a submission guard: a click is refused while a POST is
\* in flight.
validateWhenIdle(c, v, m, s, e, t) ==
  IF \E r \in inflight : r.method = "POST" THEN "Booking in progress"
  ELSE IF c = "" \/ v = "" \/ m = <<>> \/ s = Null \/ e = Null THEN MsgFill
  ELSE IF s < t THEN MsgPast
  ELSE IF e <= s THEN MsgOrder
  ELSE ""

\* The three checks of book(), in order; "" when the draft passes.
validate(c, v, m, s, e, t) ==
  IF c = "" \/ v = "" \/ m = <<>> \/ s = Null \/ e = Null THEN MsgFill
  ELSE IF s < t THEN MsgPast
  ELSE IF e <= s THEN MsgOrder
  ELSE ""

ToastError(parts) == [kind |-> "error", msg |-> parts]

ToastSuccess(parts) == [kind |-> "success", msg |-> parts]

\* bookErrorText dropping the response text.
bookErrorTextGeneric(txt) == MsgBookError

\* txt || "Error booking appointment"
bookErrorText(txt) == IF txt # "" THEN txt ELSE MsgBookError

\* cancelProceeds ignoring the answer of the dialog.
cancelProceedsAlways(confirmed) == TRUE

\* !confirm(...) returns: the handler goes on only when confirmed.
cancelProceeds(confirmed) == confirmed

\* The five useState initial values.
EmptyDraft == <<"", "", <<>>, Null, Null>>

\* bookDraftAfter without setStart(null) and setEnd(null).
bookDraftAfterKeepsDates(thrown, ok) ==
  IF ~thrown /\ ok THEN <<"", "", <<>>, start, end>> ELSE <<customer, vehicle, mechanic, start, end>>

\* loadResult emptying the list in the catch branch.
loadResultClearsOnError(list, thrown, body) ==
  IF ~thrown /\ body.kind # "invalid" THEN body ELSE [kind |-> "array", items |-> <<>>]

\* book() after the POST: the five setters run on a 2xx response only.
bookDraftAfter(thrown, ok) ==
  IF ~thrown /\ ok THEN EmptyDraft ELSE <<customer, vehicle, mechanic, start, end>>

\* load(): the list after the response; data replaces it when res.json()
\* resolved, the catch branch leaves it alone.
loadResult(list, thrown, body) ==
  IF ~thrown /\ body.kind # "invalid" THEN body ELSE list

(* ----------------------------- requests ------------------------------- *)

NoCause == [seq |-> 0, method |-> "none", id |-> 0, body |-> NoBody]

MountCause == [seq |-> 0, method |-> "mount", id |-> 0, body |-> NoBody]

CauseOf(r) == [seq |-> r.seq, method |-> r.method, id |-> r.id, body |-> r.body]

GetRequest(n, cause) == [seq |-> n, method |-> "GET", id |-> 0, body |-> NoBody, cause |-> cause]

PostRequest(n, body) == [seq |-> n, method |-> "POST", id |-> 0, body |-> body, cause |-> NoCause]

DeleteRequest(n, id) == [seq |-> n, method |-> "DELETE", id |-> id, body |-> NoBody, cause |-> NoCause]

Gets == {r \in inflight : r.method = "GET"}

Posts == {r \in inflight : r.method = "POST"}

Deletes == {r \in inflight : r.method = "DELETE"}

\* Requests issued so far plus the refetches that pending mutations may
\* still trigger: the model's cap on the run.
Committed == (nextSeq - 1) + Cardinality(Posts) + Cardinality(Deletes)

HasRoom(limit, n) == Committed + n <= limit

\* The component renders (and offers its controls) while the list can be
\* mapped over.
Rendered == appointments.kind = "array"

Event(op, seq, res, txt, flag, data) == [op |-> op, seq |-> seq, res |-> res, txt |-> txt, flag |-> flag, data |-> data]

(* ------------------------------ actions ------------------------------- *)

Init ==
  /\ appointments = [kind |-> "array", items |-> <<>>]
  /\ customer = ""
  /\ vehicle = ""
  /\ mechanic = <<>>
  /\ start = Null
  /\ end = Null
  /\ mounted = FALSE
  /\ now = 0
  /\ tzOffset \in TzOffsets
  /\ inflight = {}
  /\ nextSeq = 1
  /\ shown = <<>>
  /\ ev = Event("init", 0, "none", "", FALSE, NoData)
  /\ newest = [seq |-> 0, body |-> NoData]

\* useEffect(() => { load() }, []): the first load.
Mount ==
  /\ ~mounted
  /\ mounted' = TRUE
  /\ inflight' = inflight \cup {GetRequest(nextSeq, MountCause)}
  /\ nextSeq' = nextSeq + 1
  /\ shown' = <<>>
  /\ ev' = Event("mount", nextSeq, "none", "", FALSE, NoData)
  /\ UNCHANGED <<appointments, customer, vehicle, mechanic, start, end, now, tzOffset, newest>>

\* The wall clock read by new Date() advances.
Tick ==
  /\ now < MaxTime
  /\ now' = now + 1
  /\ shown' = <<>>
  /\ ev' = Event("tick", 0, "none", "", FALSE, NoData)
  /\ UNCHANGED <<appointments, customer, vehicle, mechanic, start, end, mounted, tzOffset, inflight, nextSeq, newest>>

Edited == Event("edit", 0, "none", "", FALSE, NoData)

\* onChange of the three text inputs and the two date pickers; the user
\* enters a value of the set D.
setCustomerInput(D) ==
  /\ mounted /\ Rendered
  /\ \E x \in D : customer' = x
  /\ shown' = <<>>
  /\ ev' = Edited
  /\ UNCHANGED <<appointments, vehicle, mechanic, start, end, mounted, now, tzOffset, inflight, nextSeq, newest>>

setVehicleInput(D) ==
  /\ mounted /\ Rendered
  /\ \E x \in D : vehicle' = x
  /\ shown' = <<>>
  /\ ev' = Edited
  /\ UNCHANGED <<appointments, customer, mechanic, start, end, mounted, now, tzOffset, inflight, nextSeq, newest>>

setMechanicInput(D) ==
  /\ mounted /\ Rendered
  /\ \E x \in D : mechanic' = x
  /\ shown' = <<>>
  /\ ev' = Edited
  /\ UNCHANGED <<appointments, customer, vehicle, start, end, mounted, now, tzOffset, inflight, nextSeq, newest>>

\* The pickers offer any instant, past ones included; minDate={start} of
\* the end picker closes earlier days only, not earlier times of a day,
\* and either picker can be cleared.
setStartInput(D) ==
  /\ mounted /\ Rendered
  /\ \E d \in D : start' = d
  /\ shown' = <<>>
  /\ ev' = Edited
  /\ UNCHANGED <<appointments, customer, vehicle, mechanic, end, mounted, now, tzOffset, inflight, nextSeq, newest>>

setEndInput(D) ==
  /\ mounted /\ Rendered
  /\ \E d \in D : end' = d
  /\ shown' = <<>>
  /\ ev' = Edited
  /\ UNCHANGED <<appointments, customer, vehicle, mechanic, start, mounted, now, tzOffset, inflight, nextSeq, newest>>

\* The Reset button.
Reset ==
  /\ mounted /\ Rendered
  /\ customer' = ""
  /\ vehicle' = ""
  /\ mechanic' = <<>>
  /\ start' = Null
  /\ end' = Null
  /\ shown' = <<>>
  /\ ev' = Event("reset", 0, "none", "", FALSE, NoData)
  /\ UNCHANGED <<appointments, mounted, now, tzOffset, inflight, nextSeq, newest>>

\* book() up to its await: validation, then the POST.  limit caps the run.
Book(limit) ==
  /\ mounted /\ Rendered
  /\ LET msg == validate(customer, vehicle, mechanic, start, end, now) IN
     IF msg # "" THEN
       /\ shown' = <<ToastError(<<msg>>)>>
       /\ ev' = Event("book", 0, "rejected", msg, FALSE, NoData)
       /\ UNCHANGED <<inflight, nextSeq>>
     ELSE
       /\ HasRoom(limit, 2)
       /\ inflight' = inflight \cup {PostRequest(nextSeq, PostBody(customer, vehicle, mechanic, start, end))}
       /\ nextSeq' = nextSeq + 1
       /\ shown' = <<>>
       /\ ev' = Event("book", nextSeq, "sent", "", FALSE, NoData)
  /\ UNCHANGED <<appointments, customer, vehicle, mechanic, start, end, mounted, now, tzOffset, newest>>

\* Whether the draft now holds something the user entered that the request
\* r did not carry.
EditedSince(r) ==
  \/ customer # "" /\ customer # r.body.customerName
  \/ vehicle # "" /\ vehicle # r.body.vehicleReg
  \/ mechanic # <<>> /\ JSONNumber(Number(mechanic)) # r.body.mechanicId
  \/ start # Null /\ toLocalISO(start) # r.body.startTime
  \/ end # Null /\ toLocalISO(end) # r.body.endTime

\* What the two awaits of book() can yield: an exception (fetch rejects, or
\* the body cannot be read: res.text() rejects), or a response with its ok
\* flag and body text.
PostOutcomes == {[thrown |-> TRUE, ok |-> FALSE, txt |-> ""]} \cup {[thrown |-> FALSE, ok |-> k, txt |-> t] : k \in BOOLEAN, t \in PostTexts}

ResultOf(o) == IF o.thrown THEN "throw" ELSE IF o.ok THEN "2xx" ELSE "non2xx"

\* book() after its awaits: the response (or the exception) of POST r.
BookResponse(r, o) ==
  /\ r.method = "POST"
  /\ inflight' = IF ~o.thrown /\ o.ok THEN (inflight \ {r}) \cup {GetRequest(nextSeq, CauseOf(r))} ELSE inflight \ {r}
  /\ nextSeq' = IF ~o.thrown /\ o.ok THEN nextSeq + 1 ELSE nextSeq
  /\ shown' = IF o.thrown THEN <<ToastError(<<MsgBookError>>)>>
              ELSE IF o.ok THEN <<ToastSuccess(<<"Appointment booked">>)>>
              ELSE <<ToastError(<<bookErrorText(o.txt)>>)>>
  /\ LET d == bookDraftAfter(o.thrown, o.ok) IN
     /\ customer' = d[1]
     /\ vehicle' = d[2]
     /\ mechanic' = d[3]
     /\ start' = d[4]
     /\ end' = d[5]
  /\ ev' = Event("bookResponse", r.seq, ResultOf(o), IF ~o.thrown /\ ~o.ok THEN o.txt ELSE "", ~o.thrown /\ o.ok /\ EditedSince(r), NoData)
  /\ UNCHANGED <<appointments, mounted, now, tzOffset, newest>>

\* cancelAppointment(id) up to its await: the confirm dialog, the DELETE.
Cancel(limit, id, confirmed) ==
  /\ mounted /\ Rendered
  /\ \E i \in 1..Len(appointments.items) : appointments.items[i] = id
  /\ IF cancelProceeds(confirmed) THEN
       /\ HasRoom(limit, 2)
       /\ inflight' = inflight \cup {DeleteRequest(nextSeq, id)}
       /\ nextSeq' = nextSeq + 1
       /\ ev' = Event("cancel", nextSeq, "sent", "", confirmed, NoData)
     ELSE
       /\ ev' = Event("cancel", 0, "declined", "", confirmed, NoData)
       /\ UNCHANGED <<inflight, nextSeq>>
  /\ shown' = <<>>
  /\ UNCHANGED <<appointments, customer, vehicle, mechanic, start, end, mounted, now, tzOffset, newest>>

\* The same for cancelAppointment(), with the exception's message and the
\* status shown when the body is empty.
DeleteOutcomes == {[thrown |-> TRUE, ok |-> FALSE, txt |-> "Failed to fetch", status |-> ""]} \cup {[thrown |-> FALSE, ok |-> TRUE, txt |-> "", status |-> "200"]} \cup {[thrown |-> FALSE, ok |-> FALSE, txt |-> t, status |-> "404"] : t \in DeleteTexts}

\* cancelAppointment(id) after its awaits.
CancelResponse(r, o) ==
  /\ r.method = "DELETE"
  /\ inflight' = IF ~o.thrown /\ o.ok THEN (inflight \ {r}) \cup {GetRequest(nextSeq, CauseOf(r))} ELSE inflight \ {r}
  /\ nextSeq' = IF ~o.thrown /\ o.ok THEN nextSeq + 1 ELSE nextSeq
  /\ shown' = IF o.thrown THEN <<ToastError(<<"Failed to cancel: ", o.txt>>)>>
              ELSE IF o.ok THEN <<ToastSuccess(<<"Appointment cancelled">>)>>
              ELSE <<ToastError(<<"Failed to cancel: ", IF o.txt # "" THEN o.txt ELSE o.status>>)>>
  /\ ev' = Event("cancelResponse", r.seq, ResultOf(o), o.txt, FALSE, NoData)
  /\ UNCHANGED <<appointments, customer, vehicle, mechanic, start, end, mounted, now, tzOffset, newest>>

\* What the two awaits of load() can yield: an exception of fetch, or a
\* response with its ok flag (which load() never reads) and its body.
GetOutcomes == {[thrown |-> TRUE, ok |-> FALSE, body |-> [kind |-> "invalid", items |-> <<>>]]} \cup {[thrown |-> FALSE, ok |-> k, body |-> b] : k \in BOOLEAN, b \in Bodies}

\* load() after its awaits: the response (or the exception) of GET r.
LoadResponse(r, o) ==
  /\ r.method = "GET"
  /\ inflight' = inflight \ {r}
  /\ appointments' = loadResult(appointments, o.thrown, o.body)
  /\ LET parsed == ~o.thrown /\ o.body.kind # "invalid" IN
     /\ newest' = IF parsed /\ r.seq > newest.seq THEN [seq |-> r.seq, body |-> o.body] ELSE newest
     /\ ev' = Event("loadResponse", r.seq, ResultOf(o), "", parsed, IF parsed THEN o.body ELSE NoData)
  /\ shown' = <<>>
  /\ UNCHANGED <<customer, vehicle, mechanic, start, end, mounted, now, tzOffset, nextSeq>>

\* Every handler, every input the user can give, one booking or
\* cancellation per run.
Next ==
  \/ Mount
  \/ Tick
  \/ setCustomerInput(Customers)
  \/ setVehicleInput(Vehicles)
  \/ setMechanicInput(MechStrings)
  \/ setStartInput(Dates \cup {Null})
  \/ setEndInput(Dates \cup {Null})
  \/ Reset
  \/ Book(MaxRequests)
  \/ \E id \in ApptIds, confirmed \in BOOLEAN : Cancel(MaxRequests, id, confirmed)
  \/ \E r \in inflight, o \in PostOutcomes : BookResponse(r, o)
  \/ \E r \in inflight, o \in DeleteOutcomes : CancelResponse(r, o)
  \/ \E r \in inflight, o \in GetOutcomes : LoadResponse(r, o)

Spec == Init /\ [][Next]_vars

\* The double-submission runs: the same handlers with room for two
\* bookings or cancellations, the user entering one valid draft (and
\* re-entering it after a reset or a success) while the clock stands.
NextDouble ==
  \/ Mount
  \/ setCustomerInput({"Ann"})
  \/ setVehicleInput({"KA01"})
  \/ setMechanicInput({<<"7">>})
  \/ setStartInput({0})
  \/ setEndInput({MaxTime})
  \/ Reset
  \/ Book(MaxDoubleRequests)
  \/ \E id \in ApptIds, confirmed \in BOOLEAN : Cancel(MaxDoubleRequests, id, confirmed)
  \/ \E r \in inflight, o \in PostOutcomes : BookResponse(r, o)
  \/ \E r \in inflight, o \in DeleteOutcomes : CancelResponse(r, o)
  \/ \E r \in inflight, o \in GetOutcomes : LoadResponse(r, o)

SpecDouble == Init /\ [][NextDouble]_vars

(* ------------------------------ claims -------------------------------- *)

\* What the draft is missing, read off the state before the click.
DraftMissing == customer = "" \/ vehicle = "" \/ mechanic = <<>> \/ start = Null \/ end = Null

\* A step of book() that rejects with message m: one error notification,
\* no request issued, draft and list untouched.
RejectsWith(m) ==
  /\ shown' = <<ToastError(<<m>>)>>
  /\ inflight' = inflight
  /\ nextSeq' = nextSeq
  /\ draft' = draft
  /\ appointments' = appointments

\* C1: book() checks the draft in a fixed order and the first failing check
\* decides: a missing field gives "Please fill all fields"; else a start
\* before the current time gives "Cannot schedule in the past"; else an end
\* at or before the start gives "End time must be after start time".  Each
\* rejection shows exactly one notification, issues no request and leaves
\* the draft and the list unchanged.
C1_ValidationOrder ==
  [][ev'.op = "book" =>
       /\ DraftMissing => RejectsWith(MsgFill)
       /\ ~DraftMissing /\ start < now => RejectsWith(MsgPast)
       /\ ~DraftMissing /\ start >= now /\ end <= start => RejectsWith(MsgOrder)]_vars

\* A complete draft, not in the past, whose end equals its start, has just
\* been rejected with the ordering message.
C1_Witness ==
  /\ ev.op = "book" /\ ev.res = "rejected"
  /\ ~DraftMissing /\ start >= now /\ end = start
  /\ shown = <<ToastError(<<MsgOrder>>)>>

\* C2 as stated: whenever start is before the current time, book() shows
\* the past-scheduling message, whatever the other four fields hold.
C2_PastWhateverOthers ==
  [][ev'.op = "book" /\ start # Null /\ start < now => shown' = <<ToastError(<<MsgPast>>)>>]_vars

\* C2 amended: whenever the five fields are all filled and start is before
\* the current time, book() rejects with the past-scheduling message,
\* whatever the filled fields hold and however end compares with start.
C2_PastWhenFilled ==
  [][ev'.op = "book" /\ ~DraftMissing /\ start < now => RejectsWith(MsgPast)]_vars

\* A filled draft with a start in the past and an end that is not after
\* the start has just been rejected with the past-scheduling message.
C2_Witness ==
  /\ ev.op = "book" /\ ev.res = "rejected"
  /\ ~DraftMissing /\ start < now /\ end <= start
  /\ shown = <<ToastError(<<MsgPast>>)>>

\* The draft passes the three checks.
DraftValid == ~DraftMissing /\ start >= now /\ end > start

\* C3: for a draft that passes the three checks, one call of book() issues
\* exactly one request, a POST whose body holds the draft's customer and
\* vehicle, the wall-clock readings of start and end as naive-local
\* timestamps, and a mechanicId that is a JSON number.
C3_OnePostWithNumber ==
  [][ev'.op = "book" /\ DraftValid =>
       \E p \in inflight' :
         /\ p \notin inflight
         /\ inflight' = inflight \cup {p}
         /\ p.method = "POST"
         /\ p.body.customerName = customer
         /\ p.body.vehicleReg = vehicle
         /\ p.body.startTime = [empty |-> FALSE, wall |-> WallClock(start)]
         /\ p.body.endTime = [empty |-> FALSE, wall |-> WallClock(end)]
         /\ p.body.mechanicId.t = "number"]_vars

\* C4: when the POST of book() is answered 2xx, the five draft fields are
\* back at their initial values, whatever the user entered meanwhile, and
\* exactly one GET is issued and nothing else.
C4_SuccessClearsAndRefetches ==
  [][ev'.op = "bookResponse" /\ ev'.res = "2xx" =>
       /\ customer' = "" /\ vehicle' = "" /\ mechanic' = <<>> /\ start' = Null /\ end' = Null
       /\ Cardinality(inflight' \ inflight) = 1
       /\ \A g \in inflight' \ inflight : g.method = "GET" /\ g.cause.seq = ev'.seq
       /\ Posts' = Posts \ {p \in Posts : p.seq = ev'.seq}
       /\ Deletes' = Deletes]_vars

\* A 2xx answer has just been handled while the draft held an entry the
\* request did not carry; the draft is empty and the refetch is in flight.
C4_Witness ==
  /\ ev.op = "bookResponse" /\ ev.res = "2xx" /\ ev.flag
  /\ draft = EmptyDraft
  /\ \E g \in Gets : g.cause.seq = ev.seq /\ g.cause.method = "POST"

\* C5: when the POST of book() is answered non-2xx, the notification is
\* the response text if that is non-empty and "Error booking appointment"
\* if it is empty; then, and when the POST throws, the draft is unchanged
\* and no request is issued.
C5_FailureKeepsDraft ==
  [][ev'.op = "bookResponse" /\ ev'.res # "2xx" =>
       /\ draft' = draft
       /\ inflight' \subseteq inflight
       /\ nextSeq' = nextSeq
       /\ Len(shown') = 1
       /\ shown'[1].kind = "error"
       /\ ev'.res = "non2xx" /\ ev'.txt # "" => shown'[1].msg = <<ev'.txt>>
       /\ ev'.res = "non2xx" /\ ev'.txt = "" => shown'[1].msg = <<MsgBookError>>]_vars

\* A non-2xx answer with the text "Mechanic double-booked" has just been
\* handled: that text is shown and the filled draft is still there.
C5_Witness ==
  /\ ev.op = "bookResponse" /\ ev.res = "non2xx" /\ ev.txt = "Mechanic double-booked"
  /\ shown = <<ToastError(<<"Mechanic double-booked">>)>>
  /\ ~DraftMissing
  /\ Gets = {}

\* C6: a declined cancelAppointment(id) changes nothing (no request, no
\* notification, list and draft as before); a DELETE enters flight only in
\* a confirmed call, one per call, addressed to the id of the call.
C6_CancelNeedsConfirmation ==
  [][/\ ev'.op = "cancel" /\ ~ev'.flag =>
          /\ inflight' = inflight
          /\ nextSeq' = nextSeq
          /\ shown' = <<>>
          /\ appointments' = appointments
          /\ draft' = draft
     /\ Deletes' \ Deletes # {} =>
          /\ ev'.op = "cancel" /\ ev'.flag
          /\ Cardinality(inflight' \ inflight) = 1
          /\ \A d \in Deletes' \ Deletes : \E i \in 1..Len(appointments.items) : appointments.items[i] = d.id]_vars

\* The user has just declined the confirmation for a listed appointment.
C6_Witness ==
  /\ ev.op = "cancel" /\ ev.res = "declined" /\ ~ev.flag
  /\ Len(appointments.items) > 0
  /\ Deletes = {}

\* C7: a non-2xx response to any of the three requests (GET, POST, DELETE)
\* leaves the appointment list as it was.
C7_RejectedKeepsList ==
  [][ev'.op \in {"loadResponse", "bookResponse", "cancelResponse"} /\ ev'.res = "non2xx" => appointments' = appointments]_vars

\* C8: the list changes only when the response of a GET in flight has been
\* parsed, and it is then exactly the parsed body; every other step (a
\* failed load, book(), cancelAppointment(), Reset, an input) keeps it.
C8_ListChangesOnlyOnParsedLoad ==
  [][/\ appointments' # appointments =>
          /\ ev'.op = "loadResponse" /\ ev'.flag
          /\ \E g \in Gets : g.seq = ev'.seq /\ g \notin inflight'
     /\ ev'.op = "loadResponse" /\ ev'.flag => appointments' = ev'.data /\ ev'.data \in Bodies
     /\ ev'.op = "loadResponse" /\ ~ev'.flag => appointments' = appointments]_vars

\* A cancellation has succeeded for an appointment that is still listed:
\* its refetch is in flight and the list has not been touched.
C8_Witness ==
  /\ ev.op = "cancelResponse" /\ ev.res = "2xx"
  /\ \E g \in Gets : g.cause.seq = ev.seq /\ \E i \in 1..Len(appointments.items) : appointments.items[i] = g.cause.id

\* C9: nothing guards against double submission: book() on a valid draft
\* issues a POST carrying that draft also while an identical POST is in
\* flight, and a confirmed cancelAppointment(id) issues a DELETE whatever
\* DELETEs (for the same id or another) are in flight.
C9_NoDoubleSubmitGuard ==
  [][/\ ev'.op = "book" /\ DraftValid /\ (\E p \in Posts : p.body = PostBody(customer, vehicle, mechanic, start, end)) =>
          \E q \in Posts' \ Posts : q.body = PostBody(customer, vehicle, mechanic, start, end) /\ Cardinality(Posts') = Cardinality(Posts) + 1
     /\ ev'.op = "cancel" /\ ev'.flag =>
          \E d \in Deletes' \ Deletes : Deletes' = Deletes \cup {d} /\ d.seq = ev'.seq]_vars

\* Two POSTs with the same body were in flight together and both were
\* answered 2xx: the second answer has just cleared the draft, and the
\* refetch of each is in flight.
C9_Witness ==
  /\ ev.op = "bookResponse" /\ ev.res = "2xx"
  /\ draft = EmptyDraft
  /\ \E g1, g2 \in Gets :
       /\ g1.cause.method = "POST" /\ g2.cause.method = "POST"
       /\ g1.cause.seq # g2.cause.seq
       /\ g1.cause.body = g2.cause.body
       /\ g1.cause.seq < g2.cause.seq /\ g2.cause.seq < g1.seq
       /\ ev.seq \in {g1.cause.seq, g2.cause.seq}

\* C10: once no request is in flight, the list is the body of the parsed
\* response to the GET that was issued last among those parsed.
C10_LatestLoadWins ==
  inflight = {} /\ newest.seq # 0 => appointments = newest.body

====
